---- MODULE Spec2Model ----
(***************************************************************************)
(* Model of the lobby tracker of dstgo/tracker: the collector              *)
(* (LobbyMongoHandler.GetAllServersFromLobby, processLobbyServer), the     *)
(* sync orchestrator (SyncLocalServers), expiry (ClearExpiredServers) and  *)
(* the snapshot store (LobbyRepo.InsertManyServers, RemoveServers,         *)
(* FindServers) with the query front end (GetServersByPage).               *)
(*                                                                         *)
(* Strings that the code inspects character by character (names, tag       *)
(* lists) are sequences of one-character strings; all other strings are    *)
(* atoms.  Loop variables of the fan-out are per-iteration (Go >= 1.22     *)
(* semantics), so every closure sees its own (region, platform).           *)
(***************************************************************************)
EXTENDS Integers, Sequences, FiniteSets, TLC

(***************************************************************************)
(* Bounds of the model.                                                    *)
(***************************************************************************)
NumRegions == 1
MaxLimit == 2
MaxTime == 2
MaxCycles == 3
MaxQueryCycles == 2
MaxTtl == 1
MaxPage == 2
MaxSize == 1

VARIABLES
  store,      \* the "lobby" collection: documents in insertion (_id) order
  nextId,     \* next _id handed out by the store
  now,        \* time.Now().UnixMilli()
  pc,         \* position of the sync flow: "idle", "spawn", "collected", "insert"
  limit,      \* the limit argument of the running sync
  ts,         \* ts of the running GetAllServersFromLobby
  servers,    \* the shared accumulator `servers`
  mu,         \* holder of `mu` (0 = unlocked)
  gerr,       \* errgroup's first error
  unit,       \* per fan-out unit: position and locals of the closure
  next,       \* index of the next (region, platform) pair to hand to group.Go
  inserted,   \* documents of the running InsertMany already written
  collectRet, \* last return value of GetAllServersFromLobby
  syncRet,    \* last return value of SyncLocalServers
  cycles,     \* number of SyncLocalServers calls so far
  failed,     \* whether some SyncLocalServers call returned an error
  page,       \* result of the latest GetServersByPage on the present store
  prevPage,   \* the one before it, when it asked the same query
  clearRet    \* what the ClearExpiredServers call that just returned did

vars == <<store, nextId, now, pc, limit, ts, servers, mu, gerr, unit, next,
          inserted, collectRet, syncRet, cycles, failed, page, prevPage,
          clearRet>>

Nil == "nil"
ErrRegions == "ErrRegions"
ErrListing == "ErrListing"
ErrGeo == "ErrGeo"
ErrEmptySlice == "ErrEmptySlice"
ErrInsert == "ErrInsert"
ErrNoSuchDocuments == "ErrNoSuchDocuments"

(***************************************************************************)
(* The listing provider and the geolocation database (external).           *)
(***************************************************************************)
\* lobbyapi.ExplicitPlatforms, the platforms every region is asked for
ExplicitPlatforms == <<"Steam", "PSN">>

\* GetCapableRegions().Regions
Regions == 1..NumRegions
NumUnits == NumRegions * Len(ExplicitPlatforms)
Units == 1..NumUnits

\* the pair the u-th iteration of the nested loops hands to group.Go
RegionOf(u) == ((u - 1) \div Len(ExplicitPlatforms)) + 1
PlatformOf(u) == ExplicitPlatforms[((u - 1) % Len(ExplicitPlatforms)) + 1]

BadAddress == "bad"

\* a server listed under every (region, platform) query: one row_id, many listings
SharedServer(p) ==
  [row_id |-> 42, name |-> <<"D", "S", "T">>, address |-> "1.1.1.1",
   tags |-> <<"a", ",", "b">>, intent |-> "cooperative", game_mode |-> "survival",
   pvp_enabled |-> FALSE, has_password |-> TRUE, mod_enabled |-> TRUE,
   platform |-> p]

\* a server listed under one (region, platform) query only
OwnServer(r, p) ==
  [row_id |-> r,
   name |-> IF r % 2 = 1 THEN <<"d", "s", "t">> ELSE <<"k", "l">>,
   address |-> IF r % 2 = 1 THEN "2.2.2.2" ELSE "1.1.1.1",
   tags |-> IF r % 2 = 1 THEN <<>> ELSE <<"c">>,
   intent |-> "social",
   game_mode |-> IF r % 2 = 1 THEN "endless" ELSE "survival",
   pvp_enabled |-> (r % 2 = 1), has_password |-> FALSE,
   mod_enabled |-> (r % 2 = 0), platform |-> p]

Listing(r, p) ==
  IF p = "Steam" THEN <<SharedServer(p), OwnServer(r, p)>> ELSE <<SharedServer(p)>>

\* the same listing with a last entry whose address does not resolve
BadListing(r, p) ==
  Listing(r, p) \o <<[OwnServer(r, p) EXCEPT !.row_id = 99, !.address = BadAddress]>>

\* what one GetLobbyServers(region, platform) call can come back with
Responses(r, p) ==
  { [err |-> ErrListing, list |-> <<>>],
    [err |-> Nil, list |-> <<>>],
    [err |-> Nil, list |-> Listing(r, p)],
    [err |-> Nil, list |-> BadListing(r, p)] }

GeoCity(address) ==
  CASE address = "1.1.1.1" -> [err |-> Nil, continent |-> "NA", area |-> "US", city |-> "Austin"]
    [] address = "2.2.2.2" -> [err |-> Nil, continent |-> "EU", area |-> "DE", city |-> "Berlin"]
    [] OTHER -> [err |-> ErrGeo, continent |-> "", area |-> "", city |-> ""]

(***************************************************************************)
(* strings.Split on a one-character separator.                             *)
(***************************************************************************)
RECURSIVE SplitFrom(_, _, _, _)
SplitFrom(s, sep, i, cur) ==
  IF i > Len(s) THEN <<cur>>
  ELSE IF s[i] = sep THEN <<cur>> \o SplitFrom(s, sep, i + 1, <<>>)
  ELSE SplitFrom(s, sep, i + 1, Append(cur, s[i]))

Split(s, sep) == SplitFrom(s, sep, 1, <<>>)

(***************************************************************************)
(* processLobbyServer: enrich a batch; the first failing lookup fails the  *)
(* whole batch.                                                            *)
(***************************************************************************)
EnrichWithNow(server, region, t) ==
  server @@
  [region |-> region, created_at |-> now,
   tag_names |-> IF server.tags # <<>> THEN Split(server.tags, ",") ELSE <<>>,
   continent |-> GeoCity(server.address).continent,
   area |-> GeoCity(server.address).area,
   city |-> GeoCity(server.address).city]

Enrich(server, region, t) ==
  server @@
  [region |-> region, created_at |-> t,
   tag_names |-> IF server.tags # <<>> THEN Split(server.tags, ",") ELSE <<>>,
   continent |-> GeoCity(server.address).continent,
   area |-> GeoCity(server.address).area,
   city |-> GeoCity(server.address).city]

RECURSIVE ProcessFromSkipping(_, _, _, _, _)
ProcessFromSkipping(list, region, t, i, ans) ==
  IF i > Len(list) THEN [err |-> Nil, ans |-> ans]
  ELSE IF GeoCity(list[i].address).err # Nil
       THEN ProcessFromSkipping(list, region, t, i + 1, ans)
       ELSE ProcessFromSkipping(list, region, t, i + 1, Append(ans, Enrich(list[i], region, t)))

RECURSIVE ProcessFrom(_, _, _, _, _)
ProcessFrom(list, region, t, i, ans) ==
  IF i > Len(list) THEN [err |-> Nil, ans |-> ans]
  ELSE IF GeoCity(list[i].address).err # Nil
       THEN [err |-> GeoCity(list[i].address).err, ans |-> <<>>]
       ELSE ProcessFrom(list, region, t, i + 1, Append(ans, Enrich(list[i], region, t)))

processLobbyServer(list, region, t) == ProcessFrom(list, region, t, 1, <<>>)

(***************************************************************************)
(* The fan-out of GetAllServersFromLobby over an errgroup with SetLimit.   *)
(***************************************************************************)
\* pc: position of the closure; list, batch, local: its locals; err: what it
\* returned (batch is kept after the return as the record of what it appended)
NewUnit == [pc |-> "new", list |-> <<>>, batch |-> <<>>, local |-> <<>>, err |-> Nil]
Returned(e, b) == [pc |-> "done", list |-> <<>>, batch |-> b, local |-> <<>>, err |-> e]

\* goroutines of the group that were started and have not returned
Active == {u \in Units : unit[u].pc \notin {"new", "done"}}

\* errgroup.Go blocks while the semaphore set by SetLimit is full
SlotFreeNoLimit(l) == TRUE

SlotFree(l) == l < 0 \/ Cardinality(Active) < l

\* sync.Mutex.Lock
CanLockAlways(holder) == TRUE

CanLock(holder) == holder = 0

\* errgroup records the first non-nil error only
FirstErr(g, e) == IF g = Nil THEN e ELSE g

\* return values of a call that has not returned yet
Running == "running"
Pending == [err |-> Running, servers |-> <<>>]

Untouched == UNCHANGED <<store, nextId, now>>
NoPage == [valid |-> FALSE]
NoRet == [n |-> 0, err |-> Running]
NoClear == [valid |-> FALSE]
\* page, prevPage, syncRet and clearRet record what the latest calls returned;
\* they are dropped by the next step of anything else
Forget == page' = NoPage /\ prevPage' = NoPage /\ clearRet' = NoClear
Quiet == syncRet' = NoRet

\* SyncLocalServers calls GetAllServersFromLobby; GetCapableRegions fails
RegionsFailFanOut(l, cap) ==
  /\ pc = "idle" /\ cycles < cap
  /\ cycles' = cycles + 1
  /\ failed' = TRUE
  /\ syncRet' = [n |-> 0, err |-> ErrRegions]
  /\ pc' = "spawn"
  /\ limit' = l
  /\ UNCHANGED <<ts, servers, mu, gerr, unit, next, inserted, collectRet>>
  /\ Untouched /\ Forget

RegionsFail(l, cap) ==
  /\ pc = "idle" /\ cycles < cap
  /\ cycles' = cycles + 1
  /\ failed' = TRUE
  /\ syncRet' = [n |-> 0, err |-> ErrRegions]
  /\ UNCHANGED <<pc, limit, ts, servers, mu, gerr, unit, next, inserted, collectRet>>
  /\ Untouched /\ Forget

\* SyncLocalServers calls GetAllServersFromLobby, which fetches the regions,
\* takes ts and sets up the group
SyncLocalServers(l, cap) ==
  /\ pc = "idle" /\ cycles < cap
  /\ cycles' = cycles + 1
  /\ pc' = "spawn"
  /\ limit' = l
  /\ ts' = now
  /\ servers' = <<>>
  /\ mu' = 0
  /\ gerr' = Nil
  /\ unit' = [u \in Units |-> NewUnit]
  /\ next' = 1
  /\ inserted' = 0
  /\ collectRet' = Pending
  /\ syncRet' = NoRet
  /\ UNCHANGED failed
  /\ Untouched /\ Forget

\* group.Go(func) for the next (region, platform) pair
GroupGo ==
  /\ pc = "spawn" /\ next <= NumUnits
  /\ SlotFree(limit)
  /\ unit' = [unit EXCEPT ![next].pc = "list"]
  /\ next' = next + 1
  /\ UNCHANGED <<pc, limit, ts, servers, mu, gerr, inserted, collectRet,
                 cycles, failed>>
  /\ Untouched /\ Forget /\ Quiet

\* the closure up to the return of GetLobbyServers, with the two early returns
UnitList(u) ==
  /\ unit[u].pc = "list"
  /\ \E resp \in Responses(RegionOf(u), PlatformOf(u)) :
       IF resp.err # Nil
       THEN /\ unit' = [unit EXCEPT ![u] = Returned(resp.err, <<>>)]
            /\ gerr' = FirstErr(gerr, resp.err)
       ELSE IF Len(resp.list) = 0
       THEN /\ unit' = [unit EXCEPT ![u] = Returned(Nil, <<>>)]
            /\ gerr' = gerr
       ELSE /\ unit' = [unit EXCEPT ![u].pc = "process", ![u].list = resp.list]
            /\ gerr' = gerr
  /\ UNCHANGED <<pc, limit, ts, servers, mu, next, inserted, collectRet,
                 cycles, failed>>
  /\ Untouched /\ Forget /\ Quiet

\* processList, err := processLobbyServer(...)
UnitProcess(u) ==
  /\ unit[u].pc = "process"
  /\ LET r == processLobbyServer(unit[u].list, RegionOf(u), ts)
     IN IF r.err # Nil
        THEN /\ unit' = [unit EXCEPT ![u] = Returned(r.err, <<>>)]
             /\ gerr' = FirstErr(gerr, r.err)
        ELSE /\ unit' = [unit EXCEPT ![u].pc = "lock", ![u].list = <<>>, ![u].batch = r.ans]
             /\ gerr' = gerr
  /\ UNCHANGED <<pc, limit, ts, servers, mu, next, inserted, collectRet,
                 cycles, failed>>
  /\ Untouched /\ Forget /\ Quiet

\* mu.Lock()
UnitLock(u) ==
  /\ unit[u].pc = "lock"
  /\ CanLock(mu)
  /\ mu' = u
  /\ unit' = [unit EXCEPT ![u].pc = "read"]
  /\ UNCHANGED <<pc, limit, ts, servers, gerr, next, inserted, collectRet,
                 cycles, failed>>
  /\ Untouched /\ Forget /\ Quiet

\* append(servers, processList...): the read of the slice header
UnitAppendRead(u) ==
  /\ unit[u].pc = "read"
  /\ unit' = [unit EXCEPT ![u].pc = "write", ![u].local = servers]
  /\ UNCHANGED <<pc, limit, ts, servers, mu, gerr, next, inserted, collectRet,
                 cycles, failed>>
  /\ Untouched /\ Forget /\ Quiet

\* servers = append(...): the write back
UnitAppendWrite(u) ==
  /\ unit[u].pc = "write"
  /\ servers' = unit[u].local \o unit[u].batch
  /\ unit' = [unit EXCEPT ![u].pc = "unlock", ![u].local = <<>>]
  /\ UNCHANGED <<pc, limit, ts, mu, gerr, next, inserted, collectRet,
                 cycles, failed>>
  /\ Untouched /\ Forget /\ Quiet

\* mu.Unlock(); return nil
UnitUnlock(u) ==
  /\ unit[u].pc = "unlock"
  /\ mu' = 0
  /\ unit' = [unit EXCEPT ![u] = Returned(Nil, unit[u].batch)]
  /\ UNCHANGED <<pc, limit, ts, servers, gerr, next, inserted, collectRet,
                 cycles, failed>>
  /\ Untouched /\ Forget /\ Quiet

\* what group.Wait() makes GetAllServersFromLobby return
WaitResultKeepPartial(g, acc) == [err |-> g, servers |-> acc]

WaitResult(g, acc) ==
  IF g # Nil THEN [err |-> g, servers |-> <<>>] ELSE [err |-> Nil, servers |-> acc]

AllReturned == next > NumUnits /\ \A u \in Units : unit[u].pc = "done"

\* group.Wait() returns and GetAllServersFromLobby returns to SyncLocalServers
Wait ==
  /\ pc = "spawn" /\ AllReturned
  /\ collectRet' = WaitResult(gerr, servers)
  /\ pc' = "collected"
  /\ UNCHANGED <<limit, ts, servers, mu, gerr, unit, next, inserted, cycles, failed>>
  /\ Untouched /\ Forget /\ Quiet

\* the locals of a finished GetAllServersFromLobby are gone
RunOver ==
  /\ limit' = 1
  /\ ts' = 0
  /\ servers' = <<>>
  /\ mu' = 0
  /\ gerr' = Nil
  /\ unit' = [u \in Units |-> NewUnit]
  /\ next' = 1

\* if err != nil { return 0, err }
SyncFail ==
  /\ pc = "collected" /\ collectRet.err # Nil
  /\ syncRet' = [n |-> 0, err |-> collectRet.err]
  /\ failed' = TRUE
  /\ pc' = "idle"
  /\ collectRet' = Pending
  /\ RunOver
  /\ UNCHANGED <<inserted, cycles>>
  /\ Untouched /\ Forget

(***************************************************************************)
(* LobbyRepo.InsertManyServers: the driver writes the documents one by one *)
(* in slice order, outside any transaction; an error stops it and leaves   *)
(* what was written.                                                       *)
(***************************************************************************)
\* the stored form of a record; cycle tags the sync call that wrote it
Document(s, id, c) == s @@ [id |-> id, cycle |-> c]

\* l.lobbyRepo.InsertManyServers(ctx, servers) is called
InsertManyServers ==
  /\ pc = "collected" /\ collectRet.err = Nil
  /\ pc' = "insert"
  /\ inserted' = 0
  /\ RunOver
  /\ UNCHANGED <<collectRet, cycles, failed>>
  /\ Untouched /\ Forget /\ Quiet

InsertUnchanged == UNCHANGED <<limit, ts, servers, mu, gerr, unit, next, cycles>>

\* InsertMany of an empty slice is refused by the driver
InsertEmpty ==
  /\ pc = "insert" /\ Len(collectRet.servers) = 0
  /\ syncRet' = [n |-> 0, err |-> ErrEmptySlice]
  /\ failed' = TRUE
  /\ pc' = "idle"
  /\ collectRet' = Pending
  /\ UNCHANGED inserted
  /\ InsertUnchanged /\ Untouched /\ Forget

\* one more document of the slice is written
InsertDoc ==
  /\ pc = "insert" /\ inserted < Len(collectRet.servers)
  /\ store' = Append(store, Document(collectRet.servers[inserted + 1], nextId, cycles))
  /\ nextId' = nextId + 1
  /\ inserted' = inserted + 1
  /\ UNCHANGED <<pc, collectRet, failed, now>>
  /\ InsertUnchanged /\ Forget /\ Quiet

\* the write of the next document fails: InsertMany returns the error
InsertFail ==
  /\ pc = "insert" /\ inserted < Len(collectRet.servers)
  /\ syncRet' = [n |-> 0, err |-> ErrInsert]
  /\ failed' = TRUE
  /\ pc' = "idle"
  /\ collectRet' = Pending
  /\ inserted' = 0
  /\ InsertUnchanged /\ Untouched /\ Forget

\* every document is written: SyncLocalServers returns len(result.InsertedIDs)
InsertDone ==
  /\ pc = "insert" /\ Len(collectRet.servers) > 0
  /\ inserted = Len(collectRet.servers)
  /\ syncRet' = [n |-> inserted, err |-> Nil]
  /\ pc' = "idle"
  /\ collectRet' = Pending
  /\ inserted' = 0
  /\ UNCHANGED failed
  /\ InsertUnchanged /\ Untouched /\ Forget

(***************************************************************************)
(* ClearExpiredServers / LobbyRepo.RemoveServers.                          *)
(***************************************************************************)
\* the filter {"created_at": {"$lte": expiredTs}}
ExpiredStrict(d, expiredTs) == d.created_at < expiredTs

Expired(d, expiredTs) == d.created_at <= expiredTs

RemoveServers(st, expiredTs) == SelectSeq(st, LAMBDA d : ~Expired(d, expiredTs))

\* expiredTs := time.Now().Add(-ttl).UnixMilli(); the call returns the number
\* of deleted documents and the document count left (before: the store the
\* call found)
ClearExpiredServers(ttl) ==
  /\ pc \in {"idle", "insert"}
  /\ store' = RemoveServers(store, now - ttl)
  /\ clearRet' = [valid |-> TRUE, expiredTs |-> now - ttl,
                  deleted |-> Len(store) - Len(store'), total |-> Len(store'),
                  before |-> store]
  /\ page' = NoPage /\ prevPage' = NoPage
  /\ UNCHANGED <<nextId, now, pc, limit, ts, servers, mu, gerr, unit, next, inserted,
                 collectRet, cycles, failed>>
  /\ Quiet

\* the clock
Tick ==
  /\ now < MaxTime
  /\ now' = now + 1
  /\ UNCHANGED <<store, nextId, pc, limit, ts, servers, mu, gerr, unit, next, inserted,
                 collectRet, cycles, failed>>
  /\ Forget /\ Quiet

(***************************************************************************)
(* GetServersByPage: the filter document built from the query options.     *)
(***************************************************************************)
NoOptions ==
  [Name |-> <<>>, Address |-> "", Area |-> "", Intent |-> "", GameMode |-> "",
   PvpEnabled |-> 0, HasPassword |-> 0, ModEnabled |-> 0, Tags |-> <<>>,
   Page |-> 0, Size |-> 0, Sort |-> ""]

EmptyM == [k \in {} |-> TRUE]

\* queryM[key] = value when cond, as each `if` of GetServersByPage does
Put(cond, key, value) == IF cond THEN key :> value ELSE EmptyM

QueryM(o) ==
  Put(o.Name # <<>>, "name", [regex |-> o.Name, options |-> "i"]) @@
  Put(o.Address # "", "address", o.Address) @@
  Put(o.Area # "", "area", o.Area) @@
  Put(o.Intent # "", "intent", o.Intent) @@
  Put(o.GameMode # "", "game_mode", o.GameMode) @@
  Put(o.PvpEnabled # 0, "pvp_enabled", o.PvpEnabled > 0) @@
  Put(o.HasPassword # 0, "has_password", o.PvpEnabled > 0) @@
  Put(o.ModEnabled # 0, "mod_enabled", o.ModEnabled > 0) @@
  Put(o.Tags # <<>> /\ Len(Split(o.Tags, ",")) > 0, "tag_names", [in |-> Split(o.Tags, ",")])

(***************************************************************************)
(* The store's matching of one document against a filter document.         *)
(***************************************************************************)
ToLower(c) ==
  CASE c = "D" -> "d" [] c = "S" -> "s" [] c = "T" -> "t" [] c = "K" -> "k"
    [] c = "L" -> "l" [] OTHER -> c

\* {"$regex": pattern, "$options": "i"} for a pattern without metacharacters:
\* the pattern occurs somewhere in the value, letter case ignored
RegexMatch(pattern, value) ==
  \E i \in 0..(Len(value) - Len(pattern)) :
    \A j \in 1..Len(pattern) : ToLower(value[i + j]) = ToLower(pattern[j])

Range(f) == {f[x] : x \in DOMAIN f}

FieldMatches(d, key, cond) ==
  CASE key = "name" -> RegexMatch(cond.regex, d.name)
    [] key = "tag_names" -> Range(d.tag_names) \cap Range(cond.in) # {}
    [] OTHER -> d[key] = cond

Matches(d, filter) == \A key \in DOMAIN filter : FieldMatches(d, key, filter[key])

(***************************************************************************)
(* LobbyRepo.FindServers.                                                  *)
(***************************************************************************)
DefaultSize == 10

ErrBadValue == "ErrBadValue"

\* $group by created_at, then $sort on "created", a field the grouped
\* documents do not have: every key is equal, the order is the server's
\* choice, and One() takes whichever group comes first
LastTs(st) == {st[i].created_at : i \in DOMAIN st}

\* Find(filter).EstimatedCount(): the collection's document count from its
\* metadata; the filter takes no part in it
EstimatedCount(st, filter) == Len(st)

Orders(S) ==
  {f \in [1..Cardinality(S) -> S] : \A i, j \in 1..Cardinality(S) : f[i] = f[j] => i = j}

\* $match, then $group by row_id with $first of _id: no $sort precedes the
\* $group, so which document of a group comes first, and in which order the
\* groups come out, is the server's choice
GroupRowIds(matched) == {matched[i].row_id : i \in DOMAIN matched}

GroupIds(matched, r) == {matched[i].id : i \in {k \in DOMAIN matched : matched[k].row_id = r}}

\* the object_ids left by $skip and $limit
Window(order, first, skip, lim) ==
  {first[order[i]] : i \in {k \in DOMAIN order : k > skip /\ k <= skip + lim}}

\* Find({"_id": {"$in": ids}}).All: the documents come back along the _id
\* index, that is in the order the store handed out their _ids
FindByIdsReversed(st, ids) ==
  LET sel == SelectSeq(st, LAMBDA d : d.id \in ids)
  IN [i \in 1..Len(sel) |-> sel[Len(sel) + 1 - i]]

FindByIds(st, ids) == SelectSeq(st, LAMBDA d : d.id \in ids)

\* the possible results of FindServers(page, size, sort, filter) on st.
\* Aggregate(...).One() on an empty collection returns ErrNoSuchDocuments.
\* When $skip/$limit leave no object_id, ids is a nil slice, encoded as null,
\* and the server rejects {"$in": null}.  sort is defaulted and never used.
\* The final Find by _id returns the documents in _id order.
FindServers(st, pg, sz, sort, filter) ==
  LET p == IF pg <= 0 THEN 1 ELSE pg
      n == IF sz <= 0 THEN DefaultSize ELSE sz
  IN IF st = <<>>
     THEN {[err |-> ErrNoSuchDocuments, total |-> 0, list |-> <<>>]}
     ELSE UNION {
       LET f == ("created_at" :> t) @@ filter
           total == EstimatedCount(st, "created_at" :> t)
           matched == SelectSeq(st, LAMBDA d : Matches(d, f))
           rows == GroupRowIds(matched)
       IN { LET ids == Window(order, first, (p - 1) * n, n)
            IN IF ids = {}
               THEN [err |-> ErrBadValue, total |-> total, list |-> <<>>]
               ELSE [err |-> Nil, total |-> total,
                     list |-> FindByIds(st, ids)]
            : order \in Orders(rows),
              first \in {g \in [rows -> {st[i].id : i \in DOMAIN st}] :
                           \A r \in rows : g[r] \in GroupIds(matched, r)} }
       : t \in LastTs(st) }

\* the query options the clients send: every filter with the default paging,
\* and the unfiltered query page by page
Filters ==
  {[NoOptions EXCEPT !.Name = <<"s", "t">>], [NoOptions EXCEPT !.Address = "1.1.1.1"],
   [NoOptions EXCEPT !.Area = "US"], [NoOptions EXCEPT !.Intent = "social"],
   [NoOptions EXCEPT !.GameMode = "survival"], [NoOptions EXCEPT !.Tags = <<"b", ",", "c">>],
   [NoOptions EXCEPT !.Area = "DE", !.PvpEnabled = 1]} \cup
  {[NoOptions EXCEPT !.PvpEnabled = a, !.HasPassword = b, !.ModEnabled = c] :
     a \in {-1, 0, 1}, b \in {-1, 0, 1}, c \in {-1, 0, 1}}

Queries ==
  Filters \cup
  {[NoOptions EXCEPT !.Page = pg, !.Size = sz] : pg \in 1..MaxPage, sz \in 1..MaxSize}

SameQuery(a, b) == [a EXCEPT !.Page = 0] = [b EXCEPT !.Page = 0]

\* GetServersByPage(options): what FindServers returned (on an error the
\* caller gets the zero PageResult).  page and prevPage follow one client
\* through the pages of one query; a client with another query starts from
\* the same store with nothing recorded.
GetServersByPage(o) ==
  /\ pc \in {"idle", "insert"}
  /\ page.valid => SameQuery(page.opts, o)
  /\ \E r \in FindServers(store, o.Page, o.Size, o.Sort, QueryM(o)) :
       page' = [valid |-> TRUE, opts |-> o, err |-> r.err,
                total |-> IF r.err = Nil THEN r.total ELSE 0,
                list |-> IF r.err = Nil THEN r.list ELSE <<>>]
  /\ prevPage' = page
  /\ clearRet' = NoClear
  /\ UNCHANGED <<store, nextId, now, pc, limit, ts, servers, mu, gerr, unit, next,
                 inserted, collectRet, cycles, failed>>
  /\ Quiet

Init ==
  /\ store = <<>>
  /\ nextId = 1
  /\ now = 0
  /\ pc = "idle"
  /\ limit = 1
  /\ ts = 0
  /\ servers = <<>>
  /\ mu = 0
  /\ gerr = Nil
  /\ unit = [u \in Units |-> NewUnit]
  /\ next = 1
  /\ inserted = 0
  /\ collectRet = Pending
  /\ syncRet = NoRet
  /\ cycles = 0
  /\ failed = FALSE
  /\ page = NoPage
  /\ prevPage = NoPage
  /\ clearRet = NoClear

\* the steps of one running sync cycle
SyncStep ==
  \/ GroupGo
  \/ \E u \in Units : UnitList(u)
  \/ \E u \in Units : UnitProcess(u)
  \/ \E u \in Units : UnitLock(u)
  \/ \E u \in Units : UnitAppendRead(u)
  \/ \E u \in Units : UnitAppendWrite(u)
  \/ \E u \in Units : UnitUnlock(u)
  \/ Wait
  \/ SyncFail
  \/ InsertManyServers
  \/ InsertEmpty
  \/ InsertDoc
  \/ InsertFail
  \/ InsertDone

\* one sync cycle under every limit 1..MaxLimit, with the clock running
NextCollect ==
  \/ \E l \in 1..MaxLimit : RegionsFail(l, 1)
  \/ \E l \in 1..MaxLimit : SyncLocalServers(l, 1)
  \/ SyncStep
  \/ Tick

SpecCollect == Init /\ [][NextCollect]_vars

\* the limit values a caller can pass: negative, zero and positive
Limits == (-MaxLimit)..MaxLimit

\* one sync cycle under every limit of Limits; a goroutine that can take a
\* step is eventually run
NextLimits ==
  \/ \E l \in Limits : RegionsFail(l, 1)
  \/ \E l \in Limits : SyncLocalServers(l, 1)
  \/ SyncStep
  \/ Tick

SpecLimits == Init /\ [][NextLimits]_vars /\ WF_vars(SyncStep)

\* the scheduler's calls: sync cycles (run with limit 1), expiry, the clock
Next ==
  \/ RegionsFail(1, MaxCycles)
  \/ SyncLocalServers(1, MaxCycles)
  \/ SyncStep
  \/ \E ttl \in 0..MaxTtl : ClearExpiredServers(ttl)
  \/ Tick

Spec == Init /\ [][Next]_vars

\* the system with its clients: sync cycles, expiry, the clock and queries
NextQuery ==
  \/ RegionsFail(1, MaxQueryCycles)
  \/ SyncLocalServers(1, MaxQueryCycles)
  \/ SyncStep
  \/ \E ttl \in 0..MaxTtl : ClearExpiredServers(ttl)
  \/ Tick
  \/ \E o \in Queries : GetServersByPage(o)

SpecQuery == Init /\ [][NextQuery]_vars

(***************************************************************************)
(* Properties.                                                             *)
(***************************************************************************)
Items(seq) == {seq[i] : i \in DOMAIN seq}

Count(seq, x) == Cardinality({i \in DOMAIN seq : seq[i] = x})

SameBag(a, b) == \A x \in Items(a) \cup Items(b) : Count(a, x) = Count(b, x)

RECURSIVE Concat(_, _)
Concat(f, n) == IF n = 0 THEN <<>> ELSE Concat(f, n - 1) \o f[n]

\* the timestamp of the current snapshot of a non-empty store
MaxCreatedAt(st) ==
  CHOOSE m \in {st[i].created_at : i \in DOMAIN st} :
    \A i \in DOMAIN st : st[i].created_at <= m

\* a query has returned a page without error
PageOk(pg) == pg.valid /\ pg.err = Nil

\* no sync is running and every sync so far succeeded: the store holds whole
\* snapshots only
Settled == pc = "idle" /\ ~failed

\* what the query options ask of a record, predicate by predicate
Satisfies(d, o) ==
  /\ o.Name # <<>> => RegexMatch(o.Name, d.name)
  /\ o.Address # "" => d.address = o.Address
  /\ o.Area # "" => d.area = o.Area
  /\ o.Intent # "" => d.intent = o.Intent
  /\ o.GameMode # "" => d.game_mode = o.GameMode
  /\ o.PvpEnabled > 0 => d.pvp_enabled
  /\ o.PvpEnabled < 0 => ~d.pvp_enabled
  /\ o.HasPassword > 0 => d.has_password
  /\ o.HasPassword < 0 => ~d.has_password
  /\ o.ModEnabled > 0 => d.mod_enabled
  /\ o.ModEnabled < 0 => ~d.mod_enabled
  /\ o.Tags # <<>> => Items(d.tag_names) \cap Items(Split(o.Tags, ",")) # {}

\* C1: after successful sync cycles and expiry runs only, every item a query
\* returns carries the largest created_at present in the store.
C1_OnlyCurrentSnapshot ==
  (Settled /\ store # <<>> /\ PageOk(page)) =>
    \A d \in Items(page.list) : d.created_at = MaxCreatedAt(store)

\* C2: when SyncLocalServers has returned an error, the store holds no
\* document written by that sync call.
C2_FailedSyncPersistsNothing ==
  (pc = "idle" /\ syncRet.err \notin {Nil, Running}) =>
    \A d \in Items(store) : d.cycle # cycles

\* C3: the records one collect run returns, and the documents one sync call
\* wrote, all carry one created_at, however the units interleaved with each
\* other and with the clock.
C3_OneTimestampPerCycle ==
  /\ \A a, b \in Items(collectRet.servers) : a.created_at = b.created_at
  /\ \A a, b \in Items(store) : a.cycle = b.cycle => a.created_at = b.created_at

\* a successful sync wrote the batches of both platforms while the clock moved on
C3_Witness ==
  /\ pc = "idle" /\ syncRet.err = Nil /\ syncRet.n >= 3
  /\ Len(store) = syncRet.n
  /\ now > store[1].created_at

\* C4: if a listing call of the run failed, GetAllServersFromLobby returns an
\* error and no records, whatever the other units appended.
C4_ListingFailureFailsCollect ==
  (pc = "collected" /\ \E u \in Units : unit[u].err = ErrListing) =>
    (collectRet.err # Nil /\ collectRet.servers = <<>>)

\* one listing call failed after another unit had appended its records
C4_Witness ==
  /\ pc = "collected"
  /\ Cardinality({u \in Units : unit[u].err = ErrListing}) = 1
  /\ servers # <<>>
  /\ collectRet.err = ErrListing

\* C5: with a limit L >= 1, at most L units are started and not yet returned.
C5_ConcurrencyBound ==
  (pc = "spawn" /\ limit >= 1) => Cardinality(Active) <= limit

\* the limit is reached while a pair is still waiting to be started
C5_Witness ==
  /\ pc = "spawn" /\ limit >= 1
  /\ Cardinality(Active) = limit
  /\ next <= NumUnits

\* C6: when no unit failed, the returned records are, as a multiset, the
\* batches of all units put together.
C6_NoLostAppends ==
  (pc = "collected" /\ \A u \in Units : unit[u].err = Nil) =>
    /\ collectRet.err = Nil
    /\ SameBag(collectRet.servers, Concat([u \in Units |-> unit[u].batch], NumUnits))

\* two units appended non-empty batches, the later pair first
C6_Witness ==
  /\ pc = "collected" /\ collectRet.err = Nil
  /\ \A u \in Units : unit[u].err = Nil
  /\ Cardinality({u \in Units : unit[u].batch # <<>>}) >= 2
  /\ collectRet.servers[1].platform # PlatformOf(1)

\* C7: every returned record satisfies every supplied predicate.
C7_FilterConjunction ==
  PageOk(page) => \A d \in Items(page.list) : Satisfies(d, page.opts)

\* C8: total is the number of stored documents of the current snapshot.
C8_TotalCountsCurrentSnapshot ==
  (Settled /\ store # <<>> /\ PageOk(page)) =>
    page.total = Cardinality({i \in DOMAIN store :
                                store[i].created_at = MaxCreatedAt(store)})

\* C9: no two items of one page share a row_id, and neither do items of two
\* different pages of one query on an unchanged store.
C9_NoRowIdTwice ==
  /\ (Settled /\ PageOk(page)) =>
       \A i, j \in DOMAIN page.list :
         page.list[i].row_id = page.list[j].row_id => i = j
  /\ (Settled /\ PageOk(page) /\ PageOk(prevPage)
        /\ page.opts.Page # prevPage.opts.Page) =>
       \A a \in Items(page.list), b \in Items(prevPage.list) : a.row_id # b.row_id

\* the documents of the current snapshot that pass the query's filter, by row_id
Candidates(o, r) ==
  {i \in DOMAIN store :
     /\ store[i].created_at = MaxCreatedAt(store)
     /\ store[i].row_id = r
     /\ Matches(store[i], QueryM(o))}

\* C10: each returned item is the earliest-inserted document of its row_id in
\* the filtered current snapshot, and the same call repeated on an unchanged
\* store returns the same document for a row_id.
C10_EarliestRepresentative ==
  /\ (Settled /\ PageOk(page)) =>
       \A d \in Items(page.list) :
         /\ Candidates(page.opts, d.row_id) # {}
         /\ \A i \in Candidates(page.opts, d.row_id) : d.id <= store[i].id
  /\ (Settled /\ PageOk(page) /\ PageOk(prevPage) /\ page.opts = prevPage.opts) =>
       \A a \in Items(page.list), b \in Items(prevPage.list) :
         a.row_id = b.row_id => a.id = b.id

\* the row_ids of the current snapshot that pass the query's filter
DedupRows(o) ==
  {store[i].row_id : i \in {k \in DOMAIN store :
     store[k].created_at = MaxCreatedAt(store) /\ Matches(store[k], QueryM(o))}}

RowIds(seq) == {seq[i].row_id : i \in DOMAIN seq}

\* C11: when pages 1 and 2 of one query with size S, 2*S >= the deduplicated
\* count, are read from an unchanged store, every row_id of the filtered
\* current snapshot is on exactly one of them.
C11_PaginationComplete ==
  (Settled /\ PageOk(page) /\ PageOk(prevPage)
     /\ SameQuery(page.opts, prevPage.opts)
     /\ {page.opts.Page, prevPage.opts.Page} = {1, 2}
     /\ 2 * page.opts.Size >= Cardinality(DedupRows(page.opts))) =>
    /\ RowIds(page.list) \cup RowIds(prevPage.list) = DedupRows(page.opts)
    /\ Len(page.list) + Len(prevPage.list) = Cardinality(DedupRows(page.opts))

\* C12: a ClearExpiredServers(ttl) call deletes exactly the documents with
\* created_at <= now - ttl, leaves every later document as it was, and
\* reports the two counts.
C12_ExpiryBoundary ==
  clearRet.valid =>
    /\ store = SelectSeq(clearRet.before, LAMBDA d : d.created_at > clearRet.expiredTs)
    /\ clearRet.deleted =
         Cardinality({i \in DOMAIN clearRet.before :
                        clearRet.before[i].created_at <= clearRet.expiredTs})
    /\ clearRet.total = Len(store)

\* the call found documents at now-ttl-1, now-ttl and now-ttl+1 and left the
\* last ones only
C12_Witness ==
  /\ clearRet.valid
  /\ {clearRet.before[i].created_at : i \in DOMAIN clearRet.before} =
       {clearRet.expiredTs - 1, clearRet.expiredTs, clearRet.expiredTs + 1}
  /\ store # <<>>
  /\ \A d \in Items(store) : d.created_at = clearRet.expiredTs + 1
  /\ clearRet.deleted >= 2

\* C13: on a store without documents a query returns no error, an empty list
\* and total 0.
C13_EmptyStoreEmptyPage ==
  (page.valid /\ store = <<>>) =>
    (page.err = Nil /\ page.list = <<>> /\ page.total = 0)

\* C14: once a unit of the run has returned an error, no unit that was not
\* started by then is started (a started closure calls GetLobbyServers as
\* its first statement).
C14_NoStartAfterError ==
  [][(pc = "spawn" /\ gerr # Nil) =>
       \A u \in Units : unit[u].pc = "new" => unit'[u].pc = "new"]_vars

\* C15: when the region fetch fails, SyncLocalServers returns that error with
\* no unit started, no listing call made and no document written.
C15_RegionsFailureStopsSync ==
  syncRet.err = ErrRegions =>
    /\ pc = "idle" /\ next = 1 /\ inserted = 0
    /\ \A u \in Units : unit[u] = NewUnit
    /\ \A d \in Items(store) : d.cycle # cycles

\* a sync call has just returned the region error
C15_Witness ==
  /\ syncRet = [n |-> 0, err |-> ErrRegions]
  /\ cycles >= 1 /\ failed

\* the records of the accumulator that came from unit u's pair
FromUnit(acc, u) ==
  {i \in DOMAIN acc : acc[i].region = RegionOf(u) /\ acc[i].platform = PlatformOf(u)}

Unresolvable(list) == \E i \in DOMAIN list : GeoCity(list[i].address).err # Nil

\* C16: a batch with one address that does not resolve is answered by
\* processLobbyServer with an error and no records; the unit appends nothing
\* to the accumulator, and the run returns an error and no records.
C16_GeoFailureFailsBatch ==
  /\ \A u \in Units :
       (unit[u].pc = "process" /\ Unresolvable(unit[u].list)) =>
         LET r == processLobbyServer(unit[u].list, RegionOf(u), ts)
         IN r.err = ErrGeo /\ r.ans = <<>>
  /\ \A u \in Units :
       (pc \in {"spawn", "collected"} /\ unit[u].err = ErrGeo) =>
         (unit[u].batch = <<>> /\ FromUnit(servers, u) = {})
  /\ (pc = "collected" /\ \E u \in Units : unit[u].err = ErrGeo) =>
       (collectRet.err # Nil /\ collectRet.servers = <<>>)

\* a lookup failed in one batch after another unit had appended its records
C16_Witness ==
  /\ pc = "collected"
  /\ \E u \in Units : unit[u].err = ErrGeo
  /\ servers # <<>>
  /\ collectRet = [err |-> ErrGeo, servers |-> <<>>]

C18_CollectReturns == (pc = "spawn") ~> (pc = "collected")

\* the documents in the store that the latest sync call wrote
OfThisCycle == {i \in DOMAIN store : store[i].cycle = cycles}

\* C19: expiry never leaves a part of a snapshot: when a sync call has
\* returned n written documents, the store holds all n of them or, after an
\* expiry run, none.
C19_NoSplitSnapshot ==
  (pc = "idle" /\ syncRet.err = Nil) =>
    Cardinality(OfThisCycle) \in {0, syncRet.n}

\* C20: a query that runs while InsertMany is writing returns documents of
\* the new snapshot only when all of them are in the store.
C20_NoPartialSnapshot ==
  (pc = "insert" /\ PageOk(page) /\ \E d \in Items(page.list) : d.cycle = cycles) =>
    Cardinality(OfThisCycle) = Len(collectRet.servers)

====
